---- MODULE Spec2Model ----
(***************************************************************************)
(* Reservation core of doctor-on-call: the availability slots of a doctor, *)
(* the appointments booked from them inside a Firestore transaction, the   *)
(* status updates of appointments and the deletion of slots.               *)
(*                                                                         *)
(* Instants are integers (milliseconds in the source).  The Firestore web  *)
(* SDK runs the callback of runTransaction optimistically: the callback    *)
(* reads, its writes are buffered, and the commit applies them together    *)
(* only if every document read is unchanged; otherwise the callback is run *)
(* again.  An error thrown by the callback rejects the transaction.        *)
(***************************************************************************)
EXTENDS Integers, Sequences, FiniteSets, TLC

\* ---- bounds -------------------------------------------------------------
MaxTime == 2
MaxSlots == 1
MaxAppts == 2
MaxBatch == 1
MaxCalls == 1

\* ---- sets the inputs are drawn from ---------------------------------------
Clients == {"c1", "c2"}
Doctors == {"d1"}
Admins == {"a1"}
Notes == {"n"}
Starts == 0..MaxTime
Ends == 1..MaxTime
SlotIds == 1..MaxSlots
ApptIds == 1..MaxAppts
SlotInputs == [start : Starts, end : Ends]

\* AppointmentStatus
Statuses == {"pending", "confirmed", "completed", "cancelled"}

\* the user documents as createUserDocument writes them: a doctor starts
\* unapproved; banned and updatedAt are absent (FALSE and 0 here) until set
UserDocs ==
    [uid \in Clients \cup Doctors \cup Admins |->
        [role |-> IF uid \in Admins THEN "admin"
                  ELSE IF uid \in Doctors THEN "doctor" ELSE "client",
         approved |-> uid \notin Doctors, banned |-> FALSE, updatedAt |-> 0]]

\* messages of the errors thrown inside the booking transaction
SlotNotFound == "Slot not found"
SlotAlreadyBooked == "Slot is already booked"
SlotInPast == "Cannot book past slots"
StoreUnavailable == "unavailable"
Valid == "valid"

\* a document that does not exist (slotDoc.exists() is false)
NoDoc == [exists |-> FALSE]
NoResult == [kind |-> "none"]
NoRequest == [doctorId |-> "", slotId |-> 0, notes |-> ""]
NoPending == [id |-> 0]

\* canJoinAppointment not yet evaluated, createRecurringSlots not running
NoBatch == [state |-> "idle", doctorId |-> "", input |-> <<>>, slots |-> <<>>,
            slotIds |-> <<>>, successCount |-> 0, errorCount |-> 0]
NoAppointment == [id |-> 0]
NoValidation == [canJoin |-> FALSE, reason |-> <<"none">>]
NoPage == [user |-> "", appointmentId |-> 0, effects |-> 0, fetches |-> {},
           loading |-> TRUE, error |-> "", appointment |-> NoAppointment,
           timeValidation |-> NoValidation]
NoAdminCall == [function |-> "none"]
NoUpdate == [state |-> "idle", appointmentId |-> 0, status |-> "", load |-> 0]
NoHook == [user |-> "", appointments |-> <<>>, loading |-> FALSE, error |-> "",
           issued |-> 0, loads |-> {}, update |-> NoUpdate]
NoJoin == [state |-> "idle"]
NoGen == [state |-> "idle"]

VARIABLES
    now,            \* the clock: new Date(), Date.now(), Timestamp.now()
    slots,          \* availability/{doctorId}/slots/{slotId}
    nextSlotId,     \* the next auto-generated slot id (never reused)
    appointments,   \* appointments/{appointmentId}
    slotOf,         \* history: the slot reference each appointment was created from
    pc,             \* per client session: position inside bookAppointment
    req,            \* per client session: the BookingInput of the call
    pre,            \* history: the slot existed, unbooked and in the future when the call was made
    snap,           \* per client session: slotDoc as read by transaction.get, kept until the commit
    pending,        \* per client session: the buffered writes of the transaction
    calls,          \* per client session: how many bookAppointment calls it has made
    runs,           \* history: how often the transaction callback ran in the current call
    result,         \* per client session: what the call returned or threw
    batch,          \* the doctor's createSlots call in progress: its argument (input), the
                    \* candidates still to process (slots) and the counts so far
    join,           \* the last evaluation of canJoinAppointment
    gen,            \* the createRecurringSlots call in progress
    page,           \* the state of useVideoConsultation on the consultation page
    users,          \* users/{uid}
    adminCall,      \* the last approveDoctor / banUser call and how it ended
    hook            \* the state of useClientAppointments / useDoctorAppointments

vars == <<now, slots, nextSlotId, appointments, slotOf, pc, req, pre, snap,
          pending, calls, runs, result, batch, join, gen, page,
          users, adminCall, hook>>

adminVars == <<users, adminCall>>
bookVars == <<pc, req, pre, snap, pending, calls, runs, result>>
storeVars == <<slots, nextSlotId, appointments, slotOf>>
sideVars == <<page, adminVars, hook>>
auxVars == <<join, gen, sideVars>>

\* ---- the store ------------------------------------------------------------

\* the document at availability/{doctorId}/slots/{slotId}
SlotDoc_OneDocument(doctorId, slotId) ==
    IF 1 \in DOMAIN slots THEN slots[1] ELSE NoDoc

SlotDoc(doctorId, slotId) ==
    IF slotId \in DOMAIN slots /\ slots[slotId].doctorId = doctorId
    THEN slots[slotId]
    ELSE NoDoc

\* slotData of createSlot / createSlots
NewSlotData_Booked(doctorId, slotInput) ==
    [doctorId |-> doctorId, start |-> slotInput.start, end |-> slotInput.end,
     booked |-> TRUE, createdAt |-> now]

NewSlotData(doctorId, slotInput) ==
    [doctorId |-> doctorId, start |-> slotInput.start, end |-> slotInput.end,
     booked |-> FALSE, createdAt |-> now]

\* addDoc(slotsRef, slotData): a new document under a fresh id
AddSlot(slotData) ==
    /\ slots' = [s \in DOMAIN slots \cup {nextSlotId} |->
                    IF s = nextSlotId THEN slotData ELSE slots[s]]
    /\ nextSlotId' = nextSlotId + 1

Init ==
    /\ now = 0
    /\ slots = <<>>
    /\ nextSlotId = 1
    /\ appointments = <<>>
    /\ slotOf = <<>>
    /\ pc = [p \in Clients |-> "idle"]
    /\ req = [p \in Clients |-> NoRequest]
    /\ pre = [p \in Clients |-> FALSE]
    /\ snap = [p \in Clients |-> NoDoc]
    /\ pending = [p \in Clients |-> NoPending]
    /\ calls = [p \in Clients |-> 0]
    /\ runs = [p \in Clients |-> 0]
    /\ result = [p \in Clients |-> NoResult]
    /\ batch = NoBatch
    /\ join = NoJoin
    /\ gen = NoGen
    /\ page = NoPage
    /\ users = UserDocs
    /\ adminCall = NoAdminCall
    /\ hook = NoHook

\* time passes
Tick ==
    /\ now < MaxTime
    /\ now' = now + 1
    /\ UNCHANGED <<storeVars, bookVars, batch, auxVars>>

\* ---- AvailabilityService ----------------------------------------------------

\* slotInput.start >= slotInput.end
InvalidRange_Unchecked(slotInput) == FALSE

InvalidRange(slotInput) == slotInput.start >= slotInput.end

\* slotInput.start < new Date()
InPast(slotInput) == slotInput.start < now

\* createSlot: the two validations, then addDoc
CreateSlot(doctorId, slotInput) ==
    /\ nextSlotId <= MaxSlots
    /\ ~InvalidRange(slotInput)
    /\ ~InPast(slotInput)
    /\ AddSlot(NewSlotData(doctorId, slotInput))
    /\ UNCHANGED <<now, appointments, slotOf, bookVars, batch, auxVars>>

\* deleteSlot: deleteDoc(slotRef), whatever the document holds
DeleteSlot(doctorId, slotId) ==
    /\ SlotDoc(doctorId, slotId) # NoDoc
    /\ slots' = [s \in DOMAIN slots \ {slotId} |-> slots[s]]
    /\ UNCHANGED <<now, nextSlotId, appointments, slotOf, bookVars, batch, auxVars>>

\* createSlots was called with the candidates slotInputs
CreateSlotsCall(doctorId, slotInputs) ==
    /\ batch.state = "idle"
    /\ batch' = [state |-> "running", doctorId |-> doctorId, input |-> slotInputs,
                 slots |-> slotInputs, slotIds |-> <<>>, successCount |-> 0,
                 errorCount |-> 0]
    /\ UNCHANGED <<now, storeVars, bookVars, auxVars>>

\* errorCount++, then the loop goes on with the next candidate
CountError_Abort(b) == [b EXCEPT !.slots = <<>>, !.errorCount = @ + 1]

CountError(b) == [b EXCEPT !.slots = Tail(@), !.errorCount = @ + 1]

\* one iteration of the loop of createSlots: the candidate fails a validation
CreateSlotsReject ==
    /\ batch.state = "running"
    /\ batch.slots # <<>>
    /\ LET slotInput == Head(batch.slots) IN
        \/ InvalidRange(slotInput)
        \/ InPast(slotInput)
    /\ batch' = CountError(batch)
    /\ UNCHANGED <<now, storeVars, bookVars, auxVars>>

\* one iteration of the loop of createSlots: addDoc resolves
CreateSlotsWrite ==
    /\ batch.state = "running"
    /\ batch.slots # <<>>
    /\ nextSlotId <= MaxSlots
    /\ LET slotInput == Head(batch.slots) IN
        /\ ~InvalidRange(slotInput)
        /\ ~InPast(slotInput)
        /\ AddSlot(NewSlotData(batch.doctorId, slotInput))
    /\ batch' = [batch EXCEPT !.slots = Tail(@),
                              !.slotIds = Append(@, nextSlotId),
                              !.successCount = @ + 1]
    /\ UNCHANGED <<now, appointments, slotOf, bookVars, auxVars>>

\* one iteration of the loop of createSlots: addDoc rejects, the catch block counts it
CreateSlotsStoreError ==
    /\ batch.state = "running"
    /\ batch.slots # <<>>
    /\ LET slotInput == Head(batch.slots) IN
        /\ ~InvalidRange(slotInput)
        /\ ~InPast(slotInput)
    /\ batch' = CountError(batch)
    /\ UNCHANGED <<now, storeVars, bookVars, auxVars>>

\* createSlots returns { slotIds, successCount, errorCount }
CreateSlotsReturn ==
    /\ batch.state = "running"
    /\ batch.slots = <<>>
    /\ batch' = NoBatch
    /\ UNCHANGED <<now, storeVars, bookVars, auxVars>>

\* ---- BookingService ---------------------------------------------------------

\* generateRoomName: doconcall-{appointmentId}-{timestamp}
generateRoomName_NoId(appointmentId) == <<"doconcall", now>>

generateRoomName(appointmentId) == <<"doconcall", appointmentId, now>>

\* the checks of the transaction callback, in the order of the code
ValidateSlot_NoBookedCheck(slotDoc, t) ==
    IF slotDoc = NoDoc THEN SlotNotFound
    ELSE IF slotDoc.start < t THEN SlotInPast
    ELSE Valid

ValidateSlot(slotDoc, t) ==
    IF slotDoc = NoDoc THEN SlotNotFound
    ELSE IF slotDoc.booked THEN SlotAlreadyBooked
    ELSE IF slotDoc.start < t THEN SlotInPast
    ELSE Valid

\* the appointment document built by the callback
NewAppointment_Confirmed(clientId, bookingInput, slotData, appointmentId) ==
    [clientId |-> clientId, doctorId |-> bookingInput.doctorId,
     slotStart |-> slotData.start, slotEnd |-> slotData.end,
     status |-> "confirmed", roomName |-> generateRoomName(appointmentId),
     notes |-> bookingInput.notes, createdAt |-> now, updatedAt |-> now]

NewAppointment_Swapped(clientId, bookingInput, slotData, appointmentId) ==
    [clientId |-> clientId, doctorId |-> bookingInput.doctorId,
     slotStart |-> slotData.end, slotEnd |-> slotData.start,
     status |-> "pending", roomName |-> generateRoomName(appointmentId),
     notes |-> bookingInput.notes, createdAt |-> now, updatedAt |-> now]

NewAppointment(clientId, bookingInput, slotData, appointmentId) ==
    [clientId |-> clientId, doctorId |-> bookingInput.doctorId,
     slotStart |-> slotData.start, slotEnd |-> slotData.end,
     status |-> "pending", roomName |-> generateRoomName(appointmentId),
     notes |-> bookingInput.notes, createdAt |-> now, updatedAt |-> now]

\* transaction.update(slotRef, { booked: true })
MarkBooked_Forgotten(slotData) == slotData

MarkBooked(slotData) == [slotData EXCEPT !.booked = TRUE]

\* doc(collection(firestore, 'appointments')).id: an id no document and no
\* other transaction in flight holds
UsedApptIds == DOMAIN appointments \cup {pending[q].id : q \in Clients}
FreshApptId == CHOOSE i \in ApptIds \ UsedApptIds :
                   \A j \in ApptIds \ UsedApptIds : i <= j

\* transaction.set inside the callback: the write is buffered until the commit,
\* the collection is as it was
TransactionSet_Immediate(docs, id, data) ==
    [a \in DOMAIN docs \cup {id} |-> IF a = id THEN data ELSE docs[a]]

TransactionSet(docs, id, data) == docs

\* the commit precondition of the transaction: the slot document is as it was read
ReadsUnchanged_Unchecked(p) == TRUE

ReadsUnchanged(p) == SlotDoc(req[p].doctorId, req[p].slotId) = snap[p]

\* bookAppointment was called
BookCall(p, doctorId, slotId, notes) ==
    /\ pc[p] \in {"idle", "done"}
    /\ calls[p] < MaxCalls
    /\ calls' = [calls EXCEPT ![p] = @ + 1]
    /\ runs' = [runs EXCEPT ![p] = 0]
    /\ pc' = [pc EXCEPT ![p] = "txn"]
    /\ req' = [req EXCEPT ![p] = [doctorId |-> doctorId, slotId |-> slotId, notes |-> notes]]
    /\ pre' = [pre EXCEPT ![p] =
                 LET d == SlotDoc(doctorId, slotId) IN
                     d # NoDoc /\ ~d.booked /\ d.start > now]
    /\ snap' = [snap EXCEPT ![p] = NoDoc]
    /\ pending' = [pending EXCEPT ![p] = NoPending]
    /\ result' = [result EXCEPT ![p] = NoResult]
    /\ UNCHANGED <<now, storeVars, batch, auxVars>>

\* one run of the transaction callback that throws
TxnBodyThrow(p) ==
    /\ pc[p] = "txn"
    /\ LET slotDoc == SlotDoc(req[p].doctorId, req[p].slotId)
           outcome == ValidateSlot(slotDoc, now) IN
        /\ outcome # Valid
        /\ result' = [result EXCEPT ![p] = [kind |-> "error", message |-> outcome]]
    /\ pc' = [pc EXCEPT ![p] = "done"]
    /\ runs' = [runs EXCEPT ![p] = @ + 1]
    /\ UNCHANGED <<now, storeVars, calls, req, pre, snap, pending, batch, auxVars>>

\* one run of the transaction callback that returns the appointment
TxnBodyReturn(p) ==
    /\ pc[p] = "txn"
    /\ ApptIds \ UsedApptIds # {}
    /\ LET slotDoc == SlotDoc(req[p].doctorId, req[p].slotId) IN
        /\ ValidateSlot(slotDoc, now) = Valid
        /\ snap' = [snap EXCEPT ![p] = slotDoc]
        /\ pending' = [pending EXCEPT ![p] =
                         [id |-> FreshApptId,
                          appointment |-> NewAppointment(p, req[p], slotDoc, FreshApptId),
                          slot |-> MarkBooked(slotDoc)]]
        /\ appointments' = TransactionSet(appointments, FreshApptId,
                                NewAppointment(p, req[p], slotDoc, FreshApptId))
    /\ pc' = [pc EXCEPT ![p] = "commit"]
    /\ runs' = [runs EXCEPT ![p] = @ + 1]
    /\ UNCHANGED <<now, slots, nextSlotId, slotOf, calls, req, pre, result,
                   batch, auxVars>>

\* the commit: both writes together, the call returns { id, ...appointment }
TxnCommit(p) ==
    /\ pc[p] = "commit"
    /\ ReadsUnchanged(p)
    /\ appointments' = [a \in DOMAIN appointments \cup {pending[p].id} |->
                          IF a = pending[p].id THEN pending[p].appointment
                          ELSE appointments[a]]
    /\ slotOf' = [a \in DOMAIN slotOf \cup {pending[p].id} |->
                    IF a = pending[p].id THEN req[p].slotId ELSE slotOf[a]]
    /\ slots' = [s \in DOMAIN slots |->
                    IF s = req[p].slotId THEN pending[p].slot ELSE slots[s]]
    /\ result' = [result EXCEPT ![p] =
                    [kind |-> "ok", id |-> pending[p].id,
                     appointment |-> pending[p].appointment]]
    /\ pending' = [pending EXCEPT ![p] = NoPending]
    /\ snap' = [snap EXCEPT ![p] = NoDoc]
    /\ pc' = [pc EXCEPT ![p] = "done"]
    /\ UNCHANGED <<now, nextSlotId, calls, runs, req, pre, batch, auxVars>>

\* the commit fails because the slot document changed: the writes are dropped
\* and the SDK runs the callback again
TxnConflict(p) ==
    /\ pc[p] = "commit"
    /\ ~ReadsUnchanged(p)
    /\ pending' = [pending EXCEPT ![p] = NoPending]
    /\ snap' = [snap EXCEPT ![p] = NoDoc]
    /\ pc' = [pc EXCEPT ![p] = "txn"]
    /\ UNCHANGED <<now, storeVars, calls, runs, req, pre, result, batch, auxVars>>

\* the store is unavailable: runTransaction rejects, nothing is written
TxnStoreError(p) ==
    /\ pc[p] \in {"txn", "commit"}
    /\ pending' = [pending EXCEPT ![p] = NoPending]
    /\ snap' = [snap EXCEPT ![p] = NoDoc]
    /\ result' = [result EXCEPT ![p] = [kind |-> "error", message |-> StoreUnavailable]]
    /\ pc' = [pc EXCEPT ![p] = "done"]
    /\ UNCHANGED <<now, storeVars, calls, runs, req, pre, batch, auxVars>>

\* the slot documents after updateAppointmentStatus: it writes appointmentRef only
SlotsAfterStatusUpdate_Released(appointmentId, status) ==
    [s \in DOMAIN slots |->
        IF status = "cancelled" /\ s = slotOf[appointmentId]
        THEN [slots[s] EXCEPT !.booked = FALSE]
        ELSE slots[s]]

SlotsAfterStatusUpdate(appointmentId, status) == slots

\* the appointment documents after updateDoc(appointmentRef, { status, updatedAt })
AppointmentsAfterStatusUpdate(appointmentId, status) ==
    [appointments EXCEPT ![appointmentId] =
        [@ EXCEPT !.status = status, !.updatedAt = now]]

\* updateAppointmentStatus: updateDoc(appointmentRef, { status, updatedAt })
UpdateAppointmentStatus(appointmentId, status) ==
    /\ appointmentId \in DOMAIN appointments
    /\ appointments' = AppointmentsAfterStatusUpdate(appointmentId, status)
    /\ slots' = SlotsAfterStatusUpdate(appointmentId, status)
    /\ UNCHANGED <<now, nextSlotId, slotOf, bookVars, batch, auxVars>>

\* the candidates createRecurringSlots hands to createSlots: consecutive
\* intervals of one duration
Candidates(start, duration, n) ==
    [i \in 1..n |-> [start |-> start + (i - 1) * duration,
                     end |-> start + i * duration]]
Batches == {Candidates(s, 1, n) : s \in Starts, n \in 1..MaxBatch}

Next ==
    \/ Tick
    \/ \E d \in Doctors, i \in SlotInputs : CreateSlot(d, i)
    \/ \E d \in Doctors, s \in SlotIds : DeleteSlot(d, s)
    \/ \E d \in Doctors, b \in Batches : CreateSlotsCall(d, b)
    \/ CreateSlotsReject
    \/ CreateSlotsWrite
    \/ CreateSlotsStoreError
    \/ CreateSlotsReturn
    \/ \E p \in Clients, d \in Doctors, s \in SlotIds, n \in Notes : BookCall(p, d, s, n)
    \/ \E p \in Clients : TxnBodyThrow(p)
    \/ \E p \in Clients : TxnBodyReturn(p)
    \/ \E p \in Clients : TxnCommit(p)
    \/ \E p \in Clients : TxnConflict(p)
    \/ \E p \in Clients : TxnStoreError(p)
    \/ \E a \in ApptIds, st \in Statuses : UpdateAppointmentStatus(a, st)

Spec == Init /\ [][Next]_vars

\* ---- time validation (canJoinAppointment) -------------------------------------

MaxJoinMinutes == 12

MsPerMinute == 60 * 1000

\* JOIN_TIME_WINDOW_MS
JOIN_TIME_WINDOW_MS == 5 * 60 * 1000

Abs(x) == IF x < 0 THEN -x ELSE x

\* Math.floor(x / d) for d > 0
Ceil_Floor(x, d) == x \div d

\* Math.ceil(x / d) for d > 0
Ceil(x, d) == -((-x) \div d)

\* the instants of the join checks: whole minutes and the milliseconds next to them
JoinInstants ==
    {m * MsPerMinute + d : m \in 0..MaxJoinMinutes, d \in {-1, 0, 1}} \ {-1}

\* canJoinAppointment(slotStart), nowMs being what new Date() returns
canJoinAppointment_Exclusive(slotStart, nowMs) ==
    LET timeUntilStart == slotStart - nowMs
        timeDifference == Abs(timeUntilStart) IN
    IF timeDifference < JOIN_TIME_WINDOW_MS
    THEN [canJoin |-> TRUE, reason |-> <<>>, timeUntilStart |-> timeUntilStart]
    ELSE IF timeUntilStart > JOIN_TIME_WINDOW_MS
    THEN [canJoin |-> FALSE,
          reason |-> <<"starts in", Ceil(timeUntilStart, MsPerMinute)>>,
          timeUntilStart |-> timeUntilStart]
    ELSE [canJoin |-> FALSE, reason |-> <<"ended">>, timeUntilStart |-> timeUntilStart]

canJoinAppointment(slotStart, nowMs) ==
    LET timeUntilStart == slotStart - nowMs
        timeDifference == Abs(timeUntilStart) IN
    IF timeDifference <= JOIN_TIME_WINDOW_MS
    THEN [canJoin |-> TRUE, reason |-> <<>>, timeUntilStart |-> timeUntilStart]
    ELSE IF timeUntilStart > JOIN_TIME_WINDOW_MS
    THEN [canJoin |-> FALSE,
          reason |-> <<"starts in", Ceil(timeUntilStart, MsPerMinute)>>,
          timeUntilStart |-> timeUntilStart]
    ELSE [canJoin |-> FALSE, reason |-> <<"ended">>, timeUntilStart |-> timeUntilStart]

\* canJoinAppointment is called for an appointment starting at slotStart
CanJoinCall(slotStart, nowMs) ==
    /\ join' = [state |-> "checked", slotStart |-> slotStart, now |-> nowMs,
                result |-> canJoinAppointment(slotStart, nowMs)]
    /\ UNCHANGED <<now, storeVars, bookVars, batch, gen, sideVars>>

NextJoin == \E slotStart \in JoinInstants, nowMs \in JoinInstants : CanJoinCall(slotStart, nowMs)

SpecJoin == Init /\ [][NextJoin]_vars

\* ---- AvailabilityService.createRecurringSlots ------------------------------------

MaxGenDay == 6

MinutesPerDay == 24 * 60

\* a Date is a number of minutes of local time since the midnight that begins a Sunday
TimesOfDay == {0, 12 * 60}
GenDates == {d * MinutesPerDay + t : d \in 0..MaxGenDay, t \in TimesOfDay}

\* "HH:mm" strings, as their digits
ClockStrings == {[hh |-> <<0, 9>>, mm |-> <<0, 0>>],
                 [hh |-> <<0, 9>>, mm |-> <<3, 0>>],
                 [hh |-> <<1, 0>>, mm |-> <<0, 0>>]}

\* Number("09") = 9
Number(digits) == digits[1] * 10 + digits[2]

\* Date.getDay(): 0 is Sunday
getDay(date) == (date \div MinutesPerDay) % 7

\* Date.setHours(hour, minute, 0, 0)
setHours(date, hour, minute) == (date \div MinutesPerDay) * MinutesPerDay + hour * 60 + minute

\* a duration need not be a whole number of minutes: durationMinutes is kept
\* in halves of a minute
DurationUnit == 2

\* ToIntegerOrInfinity of a positive number: what Date.setMinutes makes of its
\* argument before it sets the minutes
ToIntegerOrInfinity(halves) == halves \div DurationUnit

\* date.setMinutes(date.getMinutes() + minutes), minutes being whole
addMinutes(date, minutes) == date + minutes

\* the minutes of the day of a clock string
ClockMinutes(clock) == Number(clock.hh) * 60 + Number(clock.mm)

\* the longest list of candidates the model keeps
MaxGenSlots == (MaxGenDay + 1) * 3

RecurringSlotConfigs ==
    {c \in [startDate : GenDates, endDate : GenDates,
            startTime : ClockStrings, endTime : ClockStrings,
            daysOfWeek : {{1, 2, 3, 4, 5}, {0, 6}, {3}},
            durationMinutes : {m * DurationUnit : m \in {20, 30, 45, 60}}] :
        /\ c.startDate <= c.endDate
        /\ ClockMinutes(c.startTime) < ClockMinutes(c.endTime)}

\* the locals of a call of createRecurringSlots whose array of candidates
\* outlives the call
NewGen_SharedSlots(doctorId, config) ==
    [state |-> "days", doctorId |-> doctorId, config |-> config,
     currentDate |-> config.startDate, slotStart |-> 0, dayEnd |-> 0,
     slots |-> IF gen.state = "idle" THEN <<>> ELSE gen.slots, log |-> <<>>]

\* the locals of a call of createRecurringSlots: slots = [], currentDate =
\* new Date(config.startDate); log is history, the outcomes of earlier calls
NewGen(doctorId, config) ==
    [state |-> "days", doctorId |-> doctorId, config |-> config,
     currentDate |-> config.startDate, slotStart |-> 0, dayEnd |-> 0,
     slots |-> <<>>, log |-> <<>>]

\* createRecurringSlots is called
GenCall(doctorId, config) ==
    /\ gen.state = "idle"
    /\ batch.state = "idle"
    /\ gen' = NewGen(doctorId, config)
    /\ UNCHANGED <<now, storeVars, bookVars, batch, join, sideVars>>

\* while (currentDate <= endDate): a day that is not in daysOfWeek
GenSkipDay ==
    /\ gen.state = "days"
    /\ gen.currentDate <= gen.config.endDate
    /\ getDay(gen.currentDate) \notin gen.config.daysOfWeek
    /\ gen' = [gen EXCEPT !.currentDate = addMinutes(@, MinutesPerDay)]
    /\ UNCHANGED <<now, storeVars, bookVars, batch, join, sideVars>>

\* while (currentDate <= endDate): a day in daysOfWeek, slotStart and dayEnd are set
GenEnterDay ==
    /\ gen.state = "days"
    /\ gen.currentDate <= gen.config.endDate
    /\ getDay(gen.currentDate) \in gen.config.daysOfWeek
    /\ gen' = [gen EXCEPT
                 !.state = "slots",
                 !.slotStart = setHours(gen.currentDate, Number(gen.config.startTime.hh),
                                        Number(gen.config.startTime.mm)),
                 !.dayEnd = setHours(gen.currentDate, Number(gen.config.endTime.hh),
                                     Number(gen.config.endTime.mm))]
    /\ UNCHANGED <<now, storeVars, bookVars, batch, join, sideVars>>

\* slots.push(slot): the model keeps the first MaxGenSlots candidates, more
\* than any configuration with a duration of 20 minutes or more generates
Push(list, slot) == IF Len(list) < MaxGenSlots THEN Append(list, slot) ELSE list

\* while (slotStart < dayEnd): one iteration; getMinutes() is whole, so the
\* minutes set are getMinutes() plus the whole part of durationMinutes
GenSlot ==
    /\ gen.state = "slots"
    /\ gen.slotStart < gen.dayEnd
    /\ LET minutes == ToIntegerOrInfinity(gen.config.durationMinutes)
           slotEnd == addMinutes(gen.slotStart, minutes) IN
        gen' = [gen EXCEPT
                  !.slots = IF slotEnd <= gen.dayEnd
                            THEN Push(@, [start |-> gen.slotStart, end |-> slotEnd])
                            ELSE @,
                  !.slotStart = addMinutes(@, minutes)]
    /\ UNCHANGED <<now, storeVars, bookVars, batch, join, sideVars>>

\* the loop over the slots of the day ends: currentDate moves to the next day
GenNextDay ==
    /\ gen.state = "slots"
    /\ ~(gen.slotStart < gen.dayEnd)
    /\ gen' = [gen EXCEPT !.state = "days",
                          !.currentDate = addMinutes(@, MinutesPerDay)]
    /\ UNCHANGED <<now, storeVars, bookVars, batch, join, sideVars>>

\* the loop over the days ends
GenDaysEnd ==
    /\ gen.state = "days"
    /\ ~(gen.currentDate <= gen.config.endDate)
    /\ gen' = [gen EXCEPT !.state = "return"]
    /\ UNCHANGED <<now, storeVars, bookVars, batch, join, sideVars>>

\* return this.createSlots(doctorId, slots)
GenReturn ==
    /\ gen.state = "return"
    /\ CreateSlotsCall(gen.doctorId, gen.slots)

NextGen ==
    \/ \E doctorId \in Doctors, config \in RecurringSlotConfigs : GenCall(doctorId, config)
    \/ GenSkipDay
    \/ GenEnterDay
    \/ GenSlot
    \/ GenNextDay
    \/ GenDaysEnd
    \/ GenReturn

SpecGen == Init /\ [][NextGen]_vars

\* ---- createRecurringSlots called twice with one configuration ------------------

\* the instants of generation: noon of the first day and of a day in the
\* middle of the range, in minutes like the dates
GenNows == {d * MinutesPerDay + 12 * 60 : d \in {0, MaxGenDay \div 2}}

\* the candidates the validations of createSlots count as errors at time now
RejectedCount(slotInputs) ==
    Cardinality({i \in DOMAIN slotInputs :
                    InvalidRange(slotInputs[i]) \/ InPast(slotInputs[i])})

InitTwin ==
    /\ now \in GenNows
    /\ slots = <<>>
    /\ nextSlotId = 1
    /\ appointments = <<>>
    /\ slotOf = <<>>
    /\ pc = [p \in Clients |-> "idle"]
    /\ req = [p \in Clients |-> NoRequest]
    /\ pre = [p \in Clients |-> FALSE]
    /\ snap = [p \in Clients |-> NoDoc]
    /\ pending = [p \in Clients |-> NoPending]
    /\ calls = [p \in Clients |-> 0]
    /\ runs = [p \in Clients |-> 0]
    /\ result = [p \in Clients |-> NoResult]
    /\ batch = NoBatch
    /\ join = NoJoin
    /\ gen = NoGen
    /\ page = NoPage
    /\ users = UserDocs
    /\ adminCall = NoAdminCall
    /\ hook = NoHook

\* the first call has its candidates; createRecurringSlots is called again with
\* the same configuration at the same time
GenRepeat ==
    /\ gen.state = "return"
    /\ gen.log = <<>>
    /\ gen' = [NewGen(gen.doctorId, gen.config) EXCEPT
                 !.log = <<[slots |-> gen.slots,
                            errorCount |-> RejectedCount(gen.slots)]>>]
    /\ UNCHANGED <<now, storeVars, bookVars, batch, join, sideVars>>

NextTwin ==
    \/ \E doctorId \in Doctors, config \in RecurringSlotConfigs : GenCall(doctorId, config)
    \/ GenSkipDay
    \/ GenEnterDay
    \/ GenSlot
    \/ GenNextDay
    \/ GenDaysEnd
    \/ GenRepeat

SpecTwin == InitTwin /\ [][NextTwin]_vars

\* ---- createRecurringSlots with any positive duration --------------------------

\* configurations with startDate <= endDate, startTime < endTime and
\* durationMinutes > 0: half a minute, 20 minutes, an hour
PositiveDurationConfigs ==
    {c \in [startDate : GenDates, endDate : GenDates,
            startTime : ClockStrings, endTime : ClockStrings,
            daysOfWeek : {{1, 2, 3, 4, 5}, {3}},
            durationMinutes : {1, 20 * DurationUnit, 60 * DurationUnit}] :
        /\ c.startDate <= c.endDate
        /\ ClockMinutes(c.startTime) < ClockMinutes(c.endTime)}

\* the steps of a call that is running
GenRun == GenSkipDay \/ GenEnterDay \/ GenSlot \/ GenNextDay \/ GenDaysEnd

NextRun ==
    \/ \E doctorId \in Doctors, config \in PositiveDurationConfigs :
          GenCall(doctorId, config)
    \/ GenSkipDay
    \/ GenEnterDay
    \/ GenSlot
    \/ GenNextDay
    \/ GenDaysEnd

\* a call that has been made keeps running
SpecRun == Init /\ [][NextRun]_vars /\ WF_vars(GenRun)

\* ---- bookings of a doctor who has published two slots ----------------------------

PairSlotIds == {1, 2}

\* the state after createSlot was called twice at time 0
InitPair ==
    /\ now = 0
    /\ \E i1 \in SlotInputs, i2 \in SlotInputs, d \in Doctors :
        /\ i1.start < i1.end
        /\ i2.start < i2.end
        /\ slots = <<NewSlotData(d, i1), NewSlotData(d, i2)>>
    /\ nextSlotId = 3
    /\ appointments = <<>>
    /\ slotOf = <<>>
    /\ pc = [p \in Clients |-> "idle"]
    /\ req = [p \in Clients |-> NoRequest]
    /\ pre = [p \in Clients |-> FALSE]
    /\ snap = [p \in Clients |-> NoDoc]
    /\ pending = [p \in Clients |-> NoPending]
    /\ calls = [p \in Clients |-> 0]
    /\ runs = [p \in Clients |-> 0]
    /\ result = [p \in Clients |-> NoResult]
    /\ batch = NoBatch
    /\ join = NoJoin
    /\ gen = NoGen
    /\ page = NoPage
    /\ users = UserDocs
    /\ adminCall = NoAdminCall
    /\ hook = NoHook

NextPair ==
    \/ Tick
    \/ \E p \in Clients, d \in Doctors, s \in PairSlotIds, n \in Notes : BookCall(p, d, s, n)
    \/ \E p \in Clients : TxnBodyThrow(p)
    \/ \E p \in Clients : TxnBodyReturn(p)
    \/ \E p \in Clients : TxnCommit(p)
    \/ \E p \in Clients : TxnConflict(p)
    \/ \E p \in Clients : TxnStoreError(p)
    \/ \E a \in ApptIds, st \in Statuses : UpdateAppointmentStatus(a, st)

SpecPair == InitPair /\ [][NextPair]_vars

\* ---- AvailabilityService.createSlots called with any list of candidates ----------

MaxCandidates == 2

CandidateLists == UNION {[1..n -> SlotInputs] : n \in 0..MaxCandidates}

NextBatch ==
    \/ Tick
    \/ \E d \in Doctors, i \in SlotInputs : CreateSlot(d, i)
    \/ \E d \in Doctors, s \in SlotIds : DeleteSlot(d, s)
    \/ \E d \in Doctors, b \in CandidateLists : CreateSlotsCall(d, b)
    \/ CreateSlotsReject
    \/ CreateSlotsWrite
    \/ CreateSlotsStoreError
    \/ CreateSlotsReturn

SpecBatch == Init /\ [][NextBatch]_vars

\* ---- the consultation page: useVideoConsultation and ConsultationPageContent -----

MaxEffects == 2

\* the signed-in users that can be on the page, and user.role
PageUsers == Clients \cup Doctors
role(user) == IF user \in Doctors THEN "doctor" ELSE "client"

\* the appointmentId of the route: appointment 1 exists, appointment 2 does not
PageAppointmentIds == {1, 2}

\* the appointment of the page starts 10 minutes after time 0
PageSlotStart == 10 * MsPerMinute
PageSlotEnd == 40 * MsPerMinute

\* the instants at which the page is looked at: before the join window, at
\* its two boundaries, inside it and one millisecond after it
PageInstants == {0, 5 * MsPerMinute, 10 * MsPerMinute, 15 * MsPerMinute,
                 15 * MsPerMinute + 1}

NotFoundOrNoAccess == "Appointment not found or you do not have access"
NoAccess == "You do not have access to this appointment"
NotConfirmed == "This appointment is not confirmed"
LoadFailed == "Failed to load appointment"

\* the state after client c booked a slot of doctor d at time 0
InitPage ==
    /\ now = 0
    /\ \E c \in Clients, d \in Doctors, n \in Notes :
        LET slotData == [doctorId |-> d, start |-> PageSlotStart, end |-> PageSlotEnd,
                         booked |-> FALSE, createdAt |-> 0] IN
        /\ slots = <<MarkBooked(slotData)>>
        /\ appointments = <<NewAppointment(c, [doctorId |-> d, slotId |-> 1, notes |-> n],
                                           slotData, 1)>>
    /\ nextSlotId = 2
    /\ slotOf = <<1>>
    /\ pc = [p \in Clients |-> "idle"]
    /\ req = [p \in Clients |-> NoRequest]
    /\ pre = [p \in Clients |-> FALSE]
    /\ snap = [p \in Clients |-> NoDoc]
    /\ pending = [p \in Clients |-> NoPending]
    /\ calls = [p \in Clients |-> 0]
    /\ runs = [p \in Clients |-> 0]
    /\ result = [p \in Clients |-> NoResult]
    /\ batch = NoBatch
    /\ join = NoJoin
    /\ gen = NoGen
    /\ page = NoPage
    /\ users = UserDocs
    /\ adminCall = NoAdminCall
    /\ hook = NoHook

\* time passes to the next instant
PageTick ==
    /\ \E t \in PageInstants :
        /\ t > now
        /\ \A u \in PageInstants : u > now => t <= u
        /\ now' = t
    /\ UNCHANGED <<storeVars, bookVars, batch, auxVars>>

\* getClientAppointments(uid) / getDoctorAppointments(uid): the ids the query returns
getAppointments(user) ==
    {a \in DOMAIN appointments :
        IF role(user) = "client" THEN appointments[a].clientId = user
        ELSE appointments[a].doctorId = user}

\* the effect of useVideoConsultation runs (mount, or appointmentId or user
\* changed): fetchAppointment starts and awaits the query
PageEffect(user, appointmentId) ==
    /\ page.effects < MaxEffects
    /\ <<user, appointmentId>> # <<page.user, page.appointmentId>>
    /\ page' = [page EXCEPT
                  !.user = user,
                  !.appointmentId = appointmentId,
                  !.effects = @ + 1,
                  !.loading = TRUE,
                  !.error = "",
                  !.fetches = @ \cup {[n |-> page.effects + 1, user |-> user,
                                       appointmentId |-> appointmentId]}]
    /\ UNCHANGED <<now, storeVars, bookVars, batch, join, gen, adminVars, hook>>

\* what fetchAppointment does with the appointments of the query
AfterFetch(f) ==
    LET a == f.appointmentId IN
    IF a \notin getAppointments(f.user)
    THEN [page EXCEPT !.error = NotFoundOrNoAccess, !.loading = FALSE]
    ELSE IF ~(appointments[a].clientId = f.user \/ appointments[a].doctorId = f.user)
    THEN [page EXCEPT !.error = NoAccess, !.loading = FALSE]
    ELSE IF appointments[a].status # "confirmed"
    THEN [page EXCEPT !.error = NotConfirmed, !.loading = FALSE]
    ELSE [page EXCEPT
            !.appointment = [id |-> a] @@ appointments[a],
            !.timeValidation = canJoinAppointment(appointments[a].slotStart, now),
            !.loading = FALSE]

\* the query of a fetchAppointment in flight resolves
PageFetchResolve(f) ==
    /\ f \in page.fetches
    /\ page' = [AfterFetch(f) EXCEPT !.fetches = @ \ {f}]
    /\ UNCHANGED <<now, storeVars, bookVars, batch, join, gen, adminVars, hook>>

\* the query of a fetchAppointment in flight rejects: the catch block
PageFetchFail(f) ==
    /\ f \in page.fetches
    /\ page' = [page EXCEPT !.error = LoadFailed, !.loading = FALSE,
                            !.fetches = @ \ {f}]
    /\ UNCHANGED <<now, storeVars, bookVars, batch, join, gen, adminVars, hook>>

\* canJoin as the hook returns it (userInfo is not null: a user is signed in)
PageCanJoin ==
    /\ page.appointment # NoAppointment
    /\ page.timeValidation # NoValidation
    /\ page.timeValidation.canJoin

\* what ConsultationPageContent renders
PageView ==
    IF page.loading THEN "loading"
    ELSE IF page.error # "" \/ page.appointment = NoAppointment THEN "error"
    ELSE IF ~PageCanJoin /\ page.timeValidation # NoValidation THEN "unavailable"
    ELSE "room"

NextPage ==
    \/ PageTick
    \/ \E a \in ApptIds, st \in Statuses : UpdateAppointmentStatus(a, st)
    \/ \E u \in PageUsers, a \in PageAppointmentIds : PageEffect(u, a)
    \/ \E f \in page.fetches : PageFetchResolve(f)
    \/ \E f \in page.fetches : PageFetchFail(f)

SpecPage == InitPage /\ [][NextPage]_vars

\* ---- useClientAppointments / useDoctorAppointments ----------------------------

\* calls of refreshAppointments by the component
MaxLoads == 2

FailedToLoad == "Failed to load appointments"
FailedToUpdate == "Failed to update appointment"

\* loadAppointments up to its first await: setLoading(true), setError(null),
\* the query is on its way
LoadIssued(h) ==
    [h EXCEPT !.loading = TRUE, !.error = "", !.issued = @ + 1,
              !.loads = @ \cup {[n |-> h.issued + 1, state |-> "sent", docs |-> <<>>]}]

\* useEffect(() => { loadAppointments() }) when the hook mounts for user
HookMount(user) ==
    /\ hook.user = ""
    /\ hook' = LoadIssued([hook EXCEPT !.user = user])
    /\ UNCHANGED <<now, storeVars, bookVars, batch, join, gen, page, adminVars>>

\* refreshAppointments is called
HookRefresh ==
    /\ hook.user # ""
    /\ hook.issued < MaxLoads
    /\ hook' = LoadIssued(hook)
    /\ UNCHANGED <<now, storeVars, bookVars, batch, join, gen, page, adminVars>>

\* getDocs(q) of a load resolves with the documents as stored now; the load
\* goes on to fetch the other party of each appointment
LoadRead(l) ==
    /\ l \in hook.loads
    /\ l.state = "sent"
    /\ hook' = [hook EXCEPT !.loads = (@ \ {l}) \cup
                  {[l EXCEPT !.state = "read",
                             !.docs = [a \in getAppointments(hook.user) |->
                                          appointments[a]]]}]
    /\ UNCHANGED <<now, storeVars, bookVars, batch, join, gen, page, adminVars>>

\* updateStatus after `await loadAppointments()` when load l was that refresh:
\* loadAppointments never rejects, so updateStatus resolves
UpdateAfterLoad(l) ==
    IF hook.update.state = "refreshing" /\ hook.update.load = l.n
    THEN [hook.update EXCEPT !.state = "resolved"]
    ELSE hook.update

\* a load resolves: setAppointments(fetchedAppointments), setLoading(false)
LoadResolve(l) ==
    /\ l \in hook.loads
    /\ l.state = "read"
    /\ hook' = [hook EXCEPT !.appointments = l.docs, !.loading = FALSE,
                            !.loads = @ \ {l}, !.update = UpdateAfterLoad(l)]
    /\ UNCHANGED <<now, storeVars, bookVars, batch, join, gen, page, adminVars>>

\* a read of a load rejects: the catch block sets the error, the list stays
LoadFail(l) ==
    /\ l \in hook.loads
    /\ hook' = [hook EXCEPT !.error = FailedToLoad, !.loading = FALSE,
                            !.loads = @ \ {l}, !.update = UpdateAfterLoad(l)]
    /\ UNCHANGED <<now, storeVars, bookVars, batch, join, gen, page, adminVars>>

\* updateStatus(appointmentId, status) is called for an appointment of the list
HookUpdateStatus(appointmentId, status) ==
    /\ hook.update.state = "idle"
    /\ appointmentId \in DOMAIN hook.appointments
    /\ hook' = [hook EXCEPT !.error = "",
                            !.update = [state |-> "sent", appointmentId |-> appointmentId,
                                        status |-> status, load |-> 0]]
    /\ UNCHANGED <<now, storeVars, bookVars, batch, join, gen, page, adminVars>>

\* bookingService.updateAppointmentStatus resolves: the document is written and
\* updateStatus calls loadAppointments
HookUpdateWritten ==
    /\ hook.update.state = "sent"
    /\ hook.update.appointmentId \in DOMAIN appointments
    /\ appointments' = AppointmentsAfterStatusUpdate(hook.update.appointmentId,
                                                     hook.update.status)
    /\ hook' = [LoadIssued(hook) EXCEPT !.update.state = "refreshing",
                                        !.update.load = hook.issued + 1]
    /\ UNCHANGED <<now, slots, nextSlotId, slotOf, bookVars, batch, join, gen,
                   page, adminVars>>

\* bookingService.updateAppointmentStatus rejects: setError, the error is thrown on
HookUpdateFail ==
    /\ hook.update.state = "sent"
    /\ hook' = [hook EXCEPT !.error = FailedToUpdate, !.update.state = "rejected"]
    /\ UNCHANGED <<now, storeVars, bookVars, batch, join, gen, page, adminVars>>

NextHook ==
    \/ \E user \in PageUsers : HookMount(user)
    \/ HookRefresh
    \/ \E l \in hook.loads : LoadRead(l)
    \/ \E l \in hook.loads : LoadResolve(l)
    \/ \E l \in hook.loads : LoadFail(l)
    \/ \E a \in ApptIds, st \in Statuses : HookUpdateStatus(a, st)
    \/ HookUpdateWritten
    \/ HookUpdateFail

SpecHook == InitPage /\ [][NextHook]_vars

\* ---- approveDoctor and banUser (callable Cloud Functions) -------------------

\* request.auth is undefined
NoAuth == ""
\* a uid that has no document in users
UnknownUid == "u0"
\* request.auth.uid of the callers
Callers == {NoAuth, UnknownUid} \cup Clients \cup Doctors \cup Admins
\* request.data.userId: "" stands for a missing, empty or non-string userId
UserIdArgs == {"", UnknownUid} \cup Clients \cup Doctors \cup Admins
\* request.data.approved / request.data.banned: a boolean or something else
FlagArgs == {[type |-> "boolean", value |-> TRUE],
             [type |-> "boolean", value |-> FALSE],
             [type |-> "undefined", value |-> FALSE]}
AdminArgs == [userId : UserIdArgs, flag : FlagArgs]

\* the checks of banUser without the check of the caller's role
BanUserChecks_AnyCaller(auth, data) ==
    IF data.userId = "" THEN "invalid-argument"
    ELSE IF data.flag.type # "boolean" THEN "invalid-argument"
    ELSE IF auth = NoAuth THEN "unauthenticated"
    ELSE IF auth \notin DOMAIN users THEN "permission-denied"
    ELSE IF data.userId = auth THEN "invalid-argument"
    ELSE IF data.userId \notin DOMAIN users THEN "not-found"
    ELSE "ok"

\* the HttpsError code approveDoctor throws, "ok" when it reaches the update
ApproveDoctorChecks(auth, data) ==
    IF data.userId = "" THEN "invalid-argument"
    ELSE IF data.flag.type # "boolean" THEN "invalid-argument"
    ELSE IF auth = NoAuth THEN "unauthenticated"
    ELSE IF auth \notin DOMAIN users THEN "permission-denied"
    ELSE IF users[auth].role # "admin" THEN "permission-denied"
    ELSE IF data.userId \notin DOMAIN users THEN "not-found"
    ELSE IF users[data.userId].role # "doctor" THEN "invalid-argument"
    ELSE "ok"

\* the HttpsError code banUser throws, "ok" when it reaches the update
BanUserChecks(auth, data) ==
    IF data.userId = "" THEN "invalid-argument"
    ELSE IF data.flag.type # "boolean" THEN "invalid-argument"
    ELSE IF auth = NoAuth THEN "unauthenticated"
    ELSE IF auth \notin DOMAIN users THEN "permission-denied"
    ELSE IF users[auth].role # "admin" THEN "permission-denied"
    ELSE IF data.userId = auth THEN "invalid-argument"
    ELSE IF data.userId \notin DOMAIN users THEN "not-found"
    ELSE "ok"

approveDoctor(auth, data) ==
    LET outcome == ApproveDoctorChecks(auth, data)
    IN  /\ users' = IF outcome = "ok"
                    THEN [users EXCEPT ![data.userId].approved = data.flag.value,
                                       ![data.userId].updatedAt = now]
                    ELSE users
        /\ adminCall' = [function |-> "approveDoctor", auth |-> auth,
                         data |-> data, outcome |-> outcome]
        /\ UNCHANGED <<now, storeVars, bookVars, batch, join, gen, page, hook>>

banUser(auth, data) ==
    LET outcome == BanUserChecks(auth, data)
    IN  /\ users' = IF outcome = "ok"
                    THEN [users EXCEPT ![data.userId].banned = data.flag.value,
                                       ![data.userId].updatedAt = now]
                    ELSE users
        /\ adminCall' = [function |-> "banUser", auth |-> auth,
                         data |-> data, outcome |-> outcome]
        /\ UNCHANGED <<now, storeVars, bookVars, batch, join, gen, page, hook>>

NextAdmin ==
    \/ \E auth \in Callers, data \in AdminArgs : approveDoctor(auth, data)
    \/ \E auth \in Callers, data \in AdminArgs : banUser(auth, data)

SpecAdmin == Init /\ [][NextAdmin]_vars

\* ---- createSlot on a clock of whole hours -----------------------------------

\* the latest end of a slot asked for, in hours
MaxEndHour == 9
\* availabilitySlotSchema: durationHours > 0 && durationHours <= 4
SlotDurationLimitHours == 4
\* the slot inputs of the calendar dialog: start and end on the hour
HourSlotInputs == [start : Starts, end : 1..MaxEndHour]

\* one tick of now is an hour here
NextHours ==
    \/ Tick
    \/ \E d \in Doctors, i \in HourSlotInputs : CreateSlot(d, i)
    \/ \E d \in Doctors, s \in SlotIds : DeleteSlot(d, s)

SpecHours == Init /\ [][NextHours]_vars

\* ---- properties ------------------------------------------------------------

\* the appointments created from slot s
CreatedFrom(s) == {a \in DOMAIN slotOf : slotOf[a] = s}

IsError(r, message) == r.kind = "error" /\ r.message = message

\* two finished calls of different clients on the same slot, both made while
\* the slot existed, was unbooked and in the future, the slot still there and
\* still in the future, neither call cut short by the store
Raced(p, q) ==
    /\ p # q
    /\ pc[p] = "done" /\ pc[q] = "done"
    /\ req[p].doctorId = req[q].doctorId /\ req[p].slotId = req[q].slotId
    /\ pre[p] /\ pre[q]
    /\ SlotDoc(req[p].doctorId, req[p].slotId) # NoDoc
    /\ slots[req[p].slotId].start > now
    /\ ~IsError(result[p], StoreUnavailable)
    /\ ~IsError(result[q], StoreUnavailable)

\* C1: of two concurrent bookAppointment calls on the same bookable slot,
\* exactly one returns an appointment and the other fails with
\* SlotAlreadyBooked; the slot is then booked and exactly one appointment was
\* created from it.
C1_ExactlyOneBooks ==
    \A p \in Clients, q \in Clients :
        Raced(p, q) =>
            /\ \/ result[p].kind = "ok" /\ IsError(result[q], SlotAlreadyBooked)
               \/ result[q].kind = "ok" /\ IsError(result[p], SlotAlreadyBooked)
            /\ slots[req[p].slotId].booked
            /\ Cardinality(CreatedFrom(req[p].slotId)) = 1

C1_Witness ==
    \E p \in Clients, q \in Clients :
        /\ Raced(p, q)
        /\ result[p].kind = "ok"
        /\ IsError(result[q], SlotAlreadyBooked)

\* C2: for every slot in the store, booked holds exactly when an appointment
\* created from that slot exists.
C2_NoPartialBooking ==
    \A s \in DOMAIN slots : slots[s].booked <=> CreatedFrom(s) # {}

C2_Witness ==
    \E s \in DOMAIN slots : slots[s].booked /\ CreatedFrom(s) # {}

\* C3: at most one appointment is ever created from a given slot.
C3_AtMostOneAppointmentPerSlot ==
    \A s \in SlotIds : Cardinality(CreatedFrom(s)) <= 1

C3_Witness ==
    \E a \in DOMAIN appointments, p \in Clients :
        /\ appointments[a].status = "cancelled"
        /\ pc[p] = "done"
        /\ req[p].slotId = slotOf[a]
        /\ IsError(result[p], SlotAlreadyBooked)
        /\ Cardinality(CreatedFrom(slotOf[a])) = 1

\* C4: a booked slot is never deleted.
C4_BookedSlotNeverDeleted ==
    [][\A s \in DOMAIN slots : slots[s].booked => s \in DOMAIN slots']_vars

\* the transitions of the appointment state machine
LegalTransitions ==
    {<<"pending", "confirmed">>, <<"confirmed", "completed">>,
     <<"pending", "cancelled">>, <<"confirmed", "cancelled">>}

\* C5: updateAppointmentStatus takes effect only for a legal pair of current
\* and new status.
C5_OnlyLegalTransitions ==
    [][\A a \in DOMAIN appointments :
          appointments'[a] # appointments[a] =>
              <<appointments[a].status, appointments'[a].status>> \in LegalTransitions]_vars

\* C6: once an appointment is completed or cancelled its status never changes.
C6_TerminalStatuses ==
    [][\A a \in DOMAIN appointments :
          appointments[a].status \in {"completed", "cancelled"} =>
              appointments'[a].status = appointments[a].status]_vars

\* the step of client p is a run of the transaction callback
BodyStep(p) ==
    /\ pc[p] = "txn"
    /\ pc'[p] \in {"commit", "done"}
    /\ ~IsError(result'[p], StoreUnavailable)

Throws(p, message) == pc'[p] = "done" /\ IsError(result'[p], message)

\* C7: the callback fails with SlotNotFound for a missing slot, otherwise with
\* SlotAlreadyBooked for a booked slot, otherwise with SlotInPast for a slot
\* whose start is not in the future.
C7_ValidationOrder ==
    [][\A p \in Clients :
          BodyStep(p) =>
              LET d == SlotDoc(req[p].doctorId, req[p].slotId) IN
                  /\ d = NoDoc => Throws(p, SlotNotFound)
                  /\ d # NoDoc /\ d.booked => Throws(p, SlotAlreadyBooked)
                  /\ d # NoDoc /\ ~d.booked /\ ~(d.start > now) => Throws(p, SlotInPast)]_vars

\* C8: booking an unbooked slot whose start is not strictly later than the
\* observed time fails with SlotInPast and buffers no appointment.
C8_NotStrictlyFutureRejected ==
    [][\A p \in Clients :
          LET d == SlotDoc(req[p].doctorId, req[p].slotId) IN
              BodyStep(p) /\ d # NoDoc /\ ~d.booked /\ d.start <= now =>
                  Throws(p, SlotInPast) /\ pending'[p] = NoPending]_vars

\* the step of client p is the commit of its transaction
CommitStep(p) == pc[p] = "commit" /\ pc'[p] = "done" /\ result'[p].kind = "ok"

\* C9: a successful bookAppointment returns the stored appointment, which is
\* pending, carries the caller and the requested doctor and the start and end
\* of the slot as read; the slot is booked once the transaction has committed.
C9_BookedAppointment ==
    [][\A p \in Clients :
          CommitStep(p) =>
              LET r == result'[p]
                  s == req[p].slotId IN
                  /\ r.id \notin DOMAIN appointments
                  /\ r.id \in DOMAIN appointments'
                  /\ appointments'[r.id] = r.appointment
                  /\ r.appointment.status = "pending"
                  /\ r.appointment.clientId = p
                  /\ r.appointment.doctorId = req[p].doctorId
                  /\ snap[p] = slots[s]
                  /\ r.appointment.slotStart = slots[s].start
                  /\ r.appointment.slotEnd = slots[s].end
                  /\ slots'[s].booked]_vars

C9_Witness ==
    \E p \in Clients :
        /\ pc[p] = "done"
        /\ result[p].kind = "ok"
        /\ result[p].id \in DOMAIN appointments
        /\ req[p].slotId \in DOMAIN slots

\* C10: a slot is written with booked false, only a committed bookAppointment
\* sets the flag, and nothing sets it back to false.
C10_BookedFlipsOnce ==
    [][/\ \A s \in DOMAIN slots' \ DOMAIN slots : ~slots'[s].booked
       /\ \A s \in DOMAIN slots \cap DOMAIN slots' :
            /\ slots[s].booked => slots'[s].booked
            /\ ~slots[s].booked /\ slots'[s].booked =>
                  \E p \in Clients : CommitStep(p) /\ req[p].slotId = s]_vars

C10_Witness ==
    \E a \in DOMAIN appointments :
        /\ appointments[a].status = "cancelled"
        /\ slotOf[a] \in DOMAIN slots
        /\ slots[slotOf[a]].booked
DaysOfRange(config) ==
    (config.startDate \div MinutesPerDay)..(config.endDate \div MinutesPerDay)

SlotsPerDay(config) ==
    ((ClockMinutes(config.endTime) - ClockMinutes(config.startTime)) * DurationUnit)
        \div config.durationMinutes

\* the candidates the generation algorithm describes
ExpectedCandidates(config) ==
    {[start |-> d * MinutesPerDay + ClockMinutes(config.startTime)
                    + (k * config.durationMinutes) \div DurationUnit,
      end |-> d * MinutesPerDay + ClockMinutes(config.startTime)
                    + ((k + 1) * config.durationMinutes) \div DurationUnit] :
        d \in {e \in DaysOfRange(config) : e % 7 \in config.daysOfWeek},
        k \in 0..(SlotsPerDay(config) - 1)}

Range(seq) == {seq[i] : i \in DOMAIN seq}

\* the candidates handed to createSlots are exactly the expected ones, each once
GeneratedAsExpected ==
    /\ Range(batch.slots) = ExpectedCandidates(gen.config)
    /\ Len(batch.slots) = Cardinality(ExpectedCandidates(gen.config))

\* C12: the candidates that createRecurringSlots hands to createSlots are, for
\* every calendar day from startDate to endDate whose weekday is in daysOfWeek
\* and for no other day, the floor((endTime - startTime) / durationMinutes)
\* consecutive intervals of durationMinutes that start at startTime.
C12_RecurringGeneration ==
    (gen.state = "return" /\ batch.state = "running") => GeneratedAsExpected
Answered(p) == pc[p] = "done" /\ ~IsError(result[p], StoreUnavailable)

\* p and q have both called bookAppointment, each for the first time, for
\* different slots
OnDifferentSlots(p, q) ==
    /\ p # q
    /\ calls[p] = 1
    /\ calls[q] = 1
    /\ req[p].slotId # req[q].slotId

\* what the call of p does when no other call runs: its commit finds the slot
\* as it was read, it books a slot that was free and is still in the future
\* (the appointment it returned is stored, later status updates apart), and
\* only appointments of p come from its slot
AsIfAlone(p) ==
    /\ pc[p] = "commit" => ReadsUnchanged(p)
    /\ (Answered(p) /\ pre[p] /\ slots[req[p].slotId].start > now) =>
        /\ result[p].kind = "ok"
        /\ result[p].id \in DOMAIN appointments
        /\ [appointments[result[p].id] EXCEPT
                !.status = result[p].appointment.status,
                !.updatedAt = result[p].appointment.updatedAt] = result[p].appointment
        /\ result[p].appointment.clientId = p
        /\ slotOf[result[p].id] = req[p].slotId
        /\ slots[req[p].slotId].booked
    /\ \A a \in CreatedFrom(req[p].slotId) : appointments[a].clientId = p

\* C14: two bookAppointment calls on different slots do not interfere: each
\* ends as it would alone, so both succeed when both slots were free and are
\* in the future.
C14_DifferentSlotsIndependent ==
    \A p, q \in Clients : OnDifferentSlots(p, q) => AsIfAlone(p)

\* q ran its callback and committed between the callback and the commit of p
C14_Witness ==
    \E p, q \in Clients :
        /\ OnDifferentSlots(p, q)
        /\ pre[p] /\ pre[q]
        /\ pc[p] = "commit"
        /\ Answered(q)
        /\ result[q].kind = "ok"
        /\ pending[p].id < result[q].id
        /\ ReadsUnchanged(p)

\* C15 as stated: the read-validate-write body of one call runs at most once.
C15_BodyRunsOnce ==
    \A p \in Clients : runs[p] <= 1

\* the slot of the call of p can no longer be booked
SlotGone(p) ==
    ValidateSlot(SlotDoc(req[p].doctorId, req[p].slotId), now) \in
        {SlotNotFound, SlotAlreadyBooked}

\* C15, amended: bookAppointment has no retry loop of its own, but
\* runTransaction runs the callback a second time after a commit that found
\* the slot document changed, and only then. The second run finds the slot
\* booked or deleted, throws 'Slot is already booked' or 'Slot not found' and
\* writes nothing, so the callback runs at most twice per call and a call
\* commits at most once.
C15_RerunOnlyAfterConflict ==
    \A p \in Clients :
        /\ runs[p] <= 2
        /\ (runs[p] = 1 /\ pc[p] = "txn") => SlotGone(p)
        /\ runs[p] = 2 =>
            /\ pc[p] = "done"
            /\ result[p].kind = "error"
            /\ result[p].message \in {SlotNotFound, SlotAlreadyBooked}

C15_Witness ==
    \E p \in Clients :
        /\ runs[p] = 2
        /\ IsError(result[p], SlotAlreadyBooked)
\* C16: an updateAppointmentStatus call that requests an illegal transition
\* fails and leaves the appointment as it was: no step is such a call taking
\* effect.
C16_IllegalTransitionRejected ==
    [][\A a \in DOMAIN appointments, status \in Statuses :
          <<appointments[a].status, status>> \notin LegalTransitions =>
              ~UpdateAppointmentStatus(a, status)]_vars
\* C17: every stored appointment has slotStart < slotEnd and a status among
\* pending, confirmed, completed and cancelled.
C17_AppointmentWellFormed ==
    \A a \in DOMAIN appointments :
        /\ appointments[a].slotStart < appointments[a].slotEnd
        /\ appointments[a].status \in {"pending", "confirmed", "completed", "cancelled"}

C17_Witness ==
    \E a \in DOMAIN appointments :
        /\ appointments[a].status = "cancelled"
        /\ appointments[a].slotEnd = appointments[a].slotStart + 1
        /\ appointments[a].updatedAt > appointments[a].createdAt
\* C18: every persisted slot has start < end.
C18_PersistedSlotRange ==
    \A s \in DOMAIN slots : slots[s].start < slots[s].end

\* a batch whose first candidate had start >= end wrote its second candidate
C18_Witness ==
    /\ batch.state = "running"
    /\ Len(batch.input) = 2
    /\ batch.input[1].start >= batch.input[1].end
    /\ batch.errorCount = 1
    /\ batch.successCount = 1
    /\ \E s \in DOMAIN slots : s \in Range(batch.slotIds) /\ slots[s].end = batch.input[2].end
\* a step of the loop of createSlots that takes the candidate at the head
ProcessesCandidate ==
    /\ batch.state = "running"
    /\ batch.slots # <<>>
    /\ batch' # batch

\* C19: a candidate whose start is not strictly in the future when the batch
\* processes it is not persisted and is counted as failed, and the batch goes
\* on with the candidates after it.
C19_NotFutureCandidateRejected ==
    [][(ProcessesCandidate /\ Head(batch.slots).start <= now) =>
          /\ slots' = slots
          /\ batch' = CountError(batch)]_vars

\* a valid candidate is passed over without a write: addDoc rejected
StoreErrorStep ==
    /\ ProcessesCandidate
    /\ ~InvalidRange(Head(batch.slots))
    /\ ~InPast(Head(batch.slots))
    /\ nextSlotId' = nextSlotId

\* createSlots returns
ReturnStep == batch.state = "running" /\ batch'.state = "idle"

\* C20: a storage failure on one candidate adds one to the failed count,
\* leaves the slots written so far and their count as they are and the later
\* candidates to be processed; the call returns only when every candidate
\* was processed, with counts that add up to the number of candidates.
C20_PartialSuccess ==
    [][/\ StoreErrorStep =>
            /\ slots' = slots
            /\ batch'.state = "running"
            /\ batch'.errorCount = batch.errorCount + 1
            /\ batch'.successCount = batch.successCount
            /\ batch'.slotIds = batch.slotIds
            /\ batch'.slots = Tail(batch.slots)
       /\ ReturnStep =>
            /\ batch.slots = <<>>
            /\ batch.successCount + batch.errorCount = Len(batch.input)
            /\ Len(batch.slotIds) = batch.successCount]_vars

\* the store failed on the first of two valid candidates and the second was written
C20_Witness ==
    /\ batch.state = "running"
    /\ Len(batch.input) = 2
    /\ \A i \in 1..2 : ~InvalidRange(batch.input[i]) /\ ~InPast(batch.input[i])
    /\ batch.slots = <<>>
    /\ batch.errorCount = 1
    /\ batch.successCount = 1
    /\ \E s \in DOMAIN slots : s \in Range(batch.slotIds) /\ slots[s].end = batch.input[2].end
                                  /\ slots[s].start = batch.input[2].start
\* C21: the consultation page shows the video room only to the client or the
\* doctor of the appointment shown, only for an appointment loaded as
\* confirmed, and only when the join-window check allowed it.
C21_RoomOnlyForConfirmedParticipant ==
    PageView = "room" =>
        /\ page.user \in {page.appointment.clientId, page.appointment.doctorId}
        /\ page.appointment.status = "confirmed"
        /\ page.timeValidation.canJoin

\* the last step was a call of approveDoctor or banUser by caller auth
AdminCallStep == adminCall' # adminCall \/ users' # users
IsAdminCaller(auth) == auth \in DOMAIN users /\ users[auth].role = "admin"

\* C22 as stated: approveDoctor and banUser change a user document only for an
\* authenticated caller whose own document has role admin; a call without
\* authentication fails with unauthenticated, a call of a non-admin fails with
\* permission-denied, and neither modifies a user document.
C22_OnlyAdminsModifyUsers ==
    [][AdminCallStep =>
        /\ users' # users => IsAdminCaller(adminCall'.auth)
        /\ adminCall'.auth = NoAuth =>
              adminCall'.outcome = "unauthenticated" /\ users' = users
        /\ adminCall'.auth # NoAuth /\ ~IsAdminCaller(adminCall'.auth) =>
              adminCall'.outcome = "permission-denied" /\ users' = users]_vars

MalformedArgs(data) == data.userId = "" \/ data.flag.type # "boolean"

\* C22 amended: the arguments are validated before the caller is; a call with
\* malformed arguments fails with invalid-argument whoever calls.  With
\* well-formed arguments a call without authentication fails with
\* unauthenticated and a call of a non-admin with permission-denied.  In every
\* case only a call of an authenticated admin modifies a user document, and it
\* modifies nothing but approved / banned and updatedAt of its target.
C22_OnlyAdminsModifyUsers_Amended ==
    [][AdminCallStep =>
        /\ users' # users =>
              /\ IsAdminCaller(adminCall'.auth)
              /\ adminCall'.outcome = "ok"
              /\ \A u \in DOMAIN users :
                    /\ u # adminCall'.data.userId => users'[u] = users[u]
                    /\ users'[u].role = users[u].role
        /\ DOMAIN users' = DOMAIN users
        /\ ~IsAdminCaller(adminCall'.auth) =>
              /\ users' = users
              /\ adminCall'.outcome =
                    IF MalformedArgs(adminCall'.data) THEN "invalid-argument"
                    ELSE IF adminCall'.auth = NoAuth THEN "unauthenticated"
                    ELSE "permission-denied"]_vars

\* a non-admin's well-formed ban request was refused and an admin's carried out
C22_Witness ==
    /\ adminCall # NoAdminCall
    /\ adminCall.function = "banUser"
    /\ adminCall.auth \in Clients
    /\ ~MalformedArgs(adminCall.data)
    /\ adminCall.outcome = "permission-denied"
    /\ \E u \in DOMAIN users : users[u].banned
    /\ users["d1"].approved

\* client p's call of bookAppointment took a step
BookingStep(p) == pc'[p] # pc[p] \/ runs'[p] # runs[p] \/ result'[p] # result[p]

\* C23: a call of bookAppointment that fails (Slot not found, Slot is already
\* booked, Cannot book past slots, or a store error) writes nothing: the only
\* step of a call that changes the stored appointments and slots is the commit
\* that makes the call succeed, so every step of a failing call, its last one
\* included, leaves every stored document as it was.
C23_FailedBookingWritesNothing ==
    [][\A p \in Clients :
        /\ BookingStep(p) /\ result'[p].kind # "ok" => storeVars' = storeVars
        /\ result'[p].kind = "error" /\ result[p].kind # "error" =>
              /\ pc[p] \in {"txn", "commit"} /\ pc'[p] = "done"
              /\ storeVars' = storeVars]_vars

\* a call failed after its first run of the callback had prepared an appointment
C23_Witness ==
    \E p \in Clients :
        /\ pc[p] = "done" /\ result[p].kind = "error"
        /\ result[p].message = SlotAlreadyBooked
        /\ runs[p] = 2
        /\ \A a \in DOMAIN appointments : appointments[a].clientId # p

\* the fields of an appointment updateAppointmentStatus does not write
BookingFields(appointment) ==
    [f \in DOMAIN appointment \ {"status", "updatedAt"} |-> appointment[f]]
\* the stored appointments a step has changed
Rewritten ==
    {a \in DOMAIN appointments \cap DOMAIN appointments' :
        appointments'[a] # appointments[a]}

\* C24: updateAppointmentStatus changes only status and updatedAt of the
\* appointment it addresses: roomName, clientId, doctorId, slotStart and slotEnd
\* (and notes, createdAt) of every stored appointment stay as booked in every
\* step, whether or not the slot it came from still exists, and a step that
\* rewrites an appointment rewrites only that one, removes none and leaves
\* every slot document as it was.
C24_StatusUpdateFrame ==
    [][/\ \A a \in DOMAIN appointments :
            /\ a \in DOMAIN appointments'
            /\ BookingFields(appointments'[a]) = BookingFields(appointments[a])
       /\ Rewritten # {} =>
            /\ Cardinality(Rewritten) = 1
            /\ DOMAIN appointments' = DOMAIN appointments
            /\ slots' = slots /\ nextSlotId' = nextSlotId
            /\ slotOf' = slotOf]_vars

\* the status of an appointment was updated after its slot had been deleted
C24_Witness ==
    \E a \in DOMAIN appointments :
        /\ slotOf[a] \notin DOMAIN slots
        /\ appointments[a].status = "cancelled"
        /\ appointments[a].updatedAt > appointments[a].createdAt
        /\ appointments[a].roomName = <<"doconcall", a, appointments[a].createdAt>>

\* C25: whatever canJoinAppointment answers, the time until start it returns is
\* slotStart - now in milliseconds; more than 5 minutes before the start it
\* refuses with 'starts in N minutes', N being the least whole number of
\* minutes not less than the time remaining; more than 5 minutes after the
\* start it refuses with 'has already ended'.
C25_RefusalReasons ==
    join.state = "checked" =>
        LET remaining == join.slotStart - join.now
            r == join.result
        IN  /\ r.timeUntilStart = remaining
            /\ remaining > JOIN_TIME_WINDOW_MS =>
                  /\ ~r.canJoin
                  /\ Len(r.reason) = 2 /\ r.reason[1] = "starts in"
                  /\ r.reason[2] * MsPerMinute >= remaining
                  /\ (r.reason[2] - 1) * MsPerMinute < remaining
            /\ remaining < -JOIN_TIME_WINDOW_MS =>
                  ~r.canJoin /\ r.reason = <<"ended">>

\* a check one millisecond too early: 5 minutes and 1 ms remain, 6 are announced
C25_Witness ==
    /\ join.state = "checked"
    /\ join.slotStart - join.now = JOIN_TIME_WINDOW_MS + 1
    /\ join.result.reason = <<"starts in", 6>>
    /\ join.result.timeUntilStart = JOIN_TIME_WINDOW_MS + 1

\* C26: slot creation persists no slot with an invalid time range: every stored
\* slot starts before it ends and lasts at most 4 hours.
C26_NoInvalidRangePersisted ==
    \A s \in DOMAIN slots :
        /\ slots[s].start < slots[s].end
        /\ slots[s].end - slots[s].start <= SlotDurationLimitHours

C28_GenerationTerminates ==
    (gen.state \in {"days", "slots"}) ~> (gen.state = "return")

\* the candidate at the head was written: its id was pushed onto slotIds
WriteStep == ProcessesCandidate /\ batch'.slotIds # batch.slotIds

\* C29: in every call of createSlots each candidate is counted exactly once:
\* every iteration takes one candidate and adds one to exactly one of
\* successCount and errorCount; an id is pushed onto slotIds exactly when
\* successCount grows, and it is the id of a document that did not exist
\* before, written in that step from the candidate with booked == false; so
\* at the return successCount + errorCount is the number of candidates passed
\* in and slotIds has successCount entries, all different.
C29_CountsAccountForCandidates ==
    [][/\ batch.state = "running" =>
            /\ batch.successCount + batch.errorCount + Len(batch.slots)
                  = Len(batch.input)
            /\ Len(batch.slotIds) = batch.successCount
            /\ \A i, j \in DOMAIN batch.slotIds :
                  i # j => batch.slotIds[i] # batch.slotIds[j]
       /\ ProcessesCandidate =>
            /\ batch'.slots = Tail(batch.slots)
            /\ batch'.successCount + batch'.errorCount
                  = batch.successCount + batch.errorCount + 1
            /\ batch'.successCount >= batch.successCount
            /\ batch'.errorCount >= batch.errorCount
            /\ (batch'.successCount > batch.successCount) <=> WriteStep
       /\ WriteStep =>
            \E id \in DOMAIN slots' \ DOMAIN slots :
                /\ batch'.slotIds = Append(batch.slotIds, id)
                /\ slots'[id].booked = FALSE
                /\ slots'[id].start = Head(batch.slots).start
                /\ slots'[id].end = Head(batch.slots).end
                /\ slots'[id].doctorId = batch.doctorId
       /\ ReturnStep =>
            /\ batch.successCount + batch.errorCount = Len(batch.input)
            /\ Len(batch.slotIds) = batch.successCount]_vars

\* a call about to return that wrote its first candidate and rejected its
\* second, the written slot still unbooked under the returned id
C29_Witness ==
    /\ batch.state = "running"
    /\ batch.slots = <<>>
    /\ Len(batch.input) = 2
    /\ InvalidRange(batch.input[2])
    /\ batch.successCount = 1 /\ batch.errorCount = 1
    /\ Len(batch.slotIds) = 1
    /\ batch.slotIds[1] \in DOMAIN slots
    /\ ~slots[batch.slotIds[1]].booked
    /\ slots[batch.slotIds[1]].start = batch.input[1].start

\* C30: once updateStatus of the appointments hook has resolved and no load is
\* in flight, the hook's list holds the appointment with its stored status.
C30_ListShowsStoredStatus ==
    (hook.update.state = "resolved" /\ hook.loads = {}) =>
        /\ hook.update.appointmentId \in DOMAIN hook.appointments
        /\ hook.appointments[hook.update.appointmentId].status
              = appointments[hook.update.appointmentId].status

====
